---- MODULE Spec2Model ----
(***************************************************************************)
(* Model of transform.py (EagleEye): the sysctl log to CSV transformer.    *)
(* Strings are sequences of one-character strings, so that split, strip,   *)
(* the substring test and the size decoder work on characters as the       *)
(* Python code does.                                                       *)
(***************************************************************************)
EXTENDS Integers, Sequences, FiniteSets, TLC

VARIABLES pc, err, options, blfile, blacklist, input, eof, lineno, last,
          keys, records, linecount, newkeys, unique, ki, fs, out, plotted,
          reports

vars == <<pc, err, options, blfile, blacklist, input, eof, lineno, last,
          keys, records, linecount, newkeys, unique, ki, fs, out, plotted,
          reports>>

(* ------------------------------------------------------------------ *)
(* Characters and strings                                             *)
(* ------------------------------------------------------------------ *)

Digits == {"0", "1", "2", "3", "4", "5", "6", "7", "8", "9"}

DigitVal(c) ==
  CASE c = "0" -> 0 [] c = "1" -> 1 [] c = "2" -> 2 [] c = "3" -> 3
    [] c = "4" -> 4 [] c = "5" -> 5 [] c = "6" -> 6 [] c = "7" -> 7
    [] c = "8" -> 8 [] c = "9" -> 9

DigitChar(d) == <<"0", "1", "2", "3", "4", "5", "6", "7", "8", "9">>[d + 1]

Whitespace == {" ", "\n", "\t"}

\* str.isdigit(): non-empty and every character a digit
isdigit(s) == Len(s) > 0 /\ \A i \in 1..Len(s) : s[i] \in Digits

RECURSIVE lstrip(_)
lstrip(s) == IF s # <<>> /\ s[1] \in Whitespace THEN lstrip(Tail(s)) ELSE s

RECURSIVE rstrip(_)
rstrip(s) ==
  IF s # <<>> /\ s[Len(s)] \in Whitespace
    THEN rstrip(SubSeq(s, 1, Len(s) - 1)) ELSE s

\* str.strip()
strip(s) == rstrip(lstrip(s))

\* str.split(sep) for a one-character separator: always at least one piece
RECURSIVE split(_, _)
split(s, sep) ==
  IF \E i \in 1..Len(s) : s[i] = sep
    THEN LET i == CHOOSE j \in 1..Len(s) :
                    s[j] = sep /\ \A m \in 1..(j - 1) : s[m] # sep
         IN  <<SubSeq(s, 1, i - 1)>> \o split(SubSeq(s, i + 1, Len(s)), sep)
    ELSE <<s>>

\* sep.join(parts)
RECURSIVE join(_, _)
join(parts, sep) ==
  IF parts = <<>> THEN <<>>
  ELSE IF Len(parts) = 1 THEN parts[1]
  ELSE parts[1] \o sep \o join(Tail(parts), sep)

\* the Python test  sub in s
Contains(s, sub) ==
  \E i \in 0..(Len(s) - Len(sub)) : SubSeq(s, i + 1, i + Len(sub)) = sub

\* the slice s[a:b] of a list or string (0-based, end exclusive, clipped)
Slice(s, a, b) ==
  LET hi == IF b < Len(s) THEN b ELSE Len(s) IN SubSeq(s, a + 1, hi)

\* long(s) / int(s) of a string of digits
RECURSIVE long(_)
long(s) == IF s = <<>> THEN 0 ELSE 10 * long(SubSeq(s, 1, Len(s) - 1)) + DigitVal(s[Len(s)])

\* str(n) of a non-negative integer, as the csv writer renders a cell
RECURSIVE str(_)
str(n) == IF n < 10 THEN <<DigitChar(n)>> ELSE str(n \div 10) \o <<DigitChar(n % 10)>>

ToSet(s) == {s[i] : i \in 1..Len(s)}

(* ------------------------------------------------------------------ *)
(* SizeDecoder: SYMBOLS and human2bytes                                *)
(* ------------------------------------------------------------------ *)

SYMBOLS ==
  [customary |->
     << <<"B">>, <<"K","B">>, <<"M","B">>, <<"G","B">>, <<"T","B">>,
        <<"P","B">>, <<"E","B">>, <<"Z","B">>, <<"Y","B">> >>,
   customary_short |->
     << <<"B">>, <<"K">>, <<"M">>, <<"G">>, <<"T">>, <<"P">>, <<"E">>,
        <<"Z">>, <<"Y">> >>,
   customary_ext |->
     << <<"b","y","t","e">>, <<"k","i","l","o">>, <<"m","e","g","a">>,
        <<"g","i","g","a">>, <<"t","e","r","a">>, <<"p","e","t","a">>,
        <<"e","x","a">>, <<"z","e","t","t","a">>, <<"i","o","t","t","a">> >>,
   iec |->
     << <<"B","i">>, <<"K","i">>, <<"M","i">>, <<"G","i">>, <<"T","i">>,
        <<"P","i">>, <<"E","i">>, <<"Z","i">>, <<"Y","i">> >>,
   iec_ext |->
     << <<"b","y","t","e">>, <<"k","i","b","i">>, <<"m","e","b","i">>,
        <<"g","i","b","i">>, <<"t","e","b","i">>, <<"p","e","b","i">>,
        <<"e","x","b","i">>, <<"z","e","b","i">>, <<"y","o","b","i">> >>]

\* the order in which SYMBOLS.items() is visited; the only suffix in two
\* lists is "byte", at index 0 of both, so the order does not change a result
SymbolOrder == <<"customary", "customary_short", "customary_ext", "iec", "iec_ext">>

\* length of the leading run of digits and '.' consumed by the while loop
RECURSIVE NumLen(_)
NumLen(s) ==
  IF s # <<>> /\ (s[1] \in Digits \/ s[1] = ".") THEN 1 + NumLen(Tail(s)) ELSE 0

RECURSIVE Pow(_, _)
Pow(b, e) == IF e = 0 THEN 1 ELSE b * Pow(b, e - 1)

\* float(num): fails on no digit at all or more than one '.'
FloatOk(num) ==
  /\ \E i \in 1..Len(num) : num[i] \in Digits
  /\ Cardinality({i \in 1..Len(num) : num[i] = "."}) <= 1

\* num as the fraction Numer / 10^Places
Numer(num) == long(SelectSeq(num, LAMBDA c : c \in Digits))
Places(num) ==
  IF \E i \in 1..Len(num) : num[i] = "."
    THEN Len(num) - (CHOOSE i \in 1..Len(num) : num[i] = ".")
    ELSE 0

\* position (0-based) of letter in sset, or -1
IndexIn(sset, letter) ==
  IF \E i \in 1..Len(sset) : sset[i] = letter
    THEN (CHOOSE i \in 1..Len(sset) : sset[i] = letter) - 1
    ELSE -1

Ok(v) == [ok |-> TRUE, val |-> v, exc |-> "none"]
Raise(e) == [ok |-> FALSE, val |-> 0, exc |-> e]

human2bytes(s0) ==
  LET s == strip(s0) IN
  IF isdigit(s) THEN Ok(long(s))
  ELSE
    LET n      == NumLen(s)
        num    == SubSeq(s, 1, n)
        letter == strip(SubSeq(s, n + 1, Len(s)))
        hits   == {i \in 1..Len(SymbolOrder) :
                     IndexIn(SYMBOLS[SymbolOrder[i]], letter) >= 0}
        found  == hits # {}
        first  == CHOOSE i \in hits : \A j \in hits : i <= j
        \* for/else: no list holds the letter; a lone 'k' takes
        \* SYMBOLS['customary'] and is upper-cased
        sset   == IF found THEN SYMBOLS[SymbolOrder[first]]
                  ELSE SYMBOLS.customary
        lookup == IF found THEN letter ELSE <<"K">>
        idx    == IndexIn(sset, lookup)
    IN
    IF ~FloatOk(num) THEN Raise("ValueError")
    ELSE IF ~found /\ letter # <<"k">> THEN Raise("ValueError")
    \* prefix[letter] on a letter that is no key of prefix
    ELSE IF idx < 0 THEN Raise("KeyError")
    ELSE Ok((Numer(num) * Pow(2, 10 * idx)) \div Pow(10, Places(num)))

(* ------------------------------------------------------------------ *)
(* LineParser: the legacy date and parse_line                          *)
(* ------------------------------------------------------------------ *)

Date == <<"D", "a", "t", "e">>

\* filename is None
None == <<"None">>

Stdin == <<"<", "s", "t", "d", "i", "n", ">">>

\* the rotation marker tested by main
TurnedOver == <<"t", "u", "r", "n", "e", "d", " ", "o", "v", "e", "r">>

Weekdays ==
  { <<"M","o","n">>, <<"T","u","e">>, <<"W","e","d">>, <<"T","h","u">>,
    <<"F","r","i">>, <<"S","a","t">>, <<"S","u","n">> }

Months ==
  << <<"J","a","n">>, <<"F","e","b">>, <<"M","a","r">>, <<"A","p","r">>,
     <<"M","a","y">>, <<"J","u","n">>, <<"J","u","l">>, <<"A","u","g">>,
     <<"S","e","p">>, <<"O","c","t">>, <<"N","o","v">>, <<"D","e","c">> >>

Pad2(n) == <<DigitChar(n \div 10), DigitChar(n % 10)>>

DaysIn(month, year) ==
  IF month = 2
    THEN IF year % 4 = 0 /\ (year % 100 # 0 \/ year % 400 = 0) THEN 29 ELSE 28
    ELSE IF month \in {4, 6, 9, 11} THEN 30 ELSE 31

\* datetime.strptime(s, '%a %b %d %H:%M:%S %Y').strftime('%Y-%m-%dT%H:%M:%S')
\* for names in their usual capitalisation: the five fields, separated by
\* white space, each in range; anything else is a ValueError
strptime(s) ==
  LET f    == SelectSeq(split(s, " "), LAMBDA p : p # <<>>)
      hms  == split(f[4], ":")
      two(x) == isdigit(x) /\ Len(x) <= 2
      mon  == IndexIn(Months, f[2]) + 1
      good ==
        /\ s # <<>> /\ s[1] \notin Whitespace /\ s[Len(s)] \notin Whitespace
        /\ Len(f) = 5
        /\ f[1] \in Weekdays
        /\ mon >= 1
        /\ isdigit(f[5]) /\ Len(f[5]) = 4 /\ long(f[5]) >= 1
        /\ two(f[3]) /\ long(f[3]) >= 1 /\ long(f[3]) <= DaysIn(mon, long(f[5]))
        /\ Len(hms) = 3
        /\ two(hms[1]) /\ long(hms[1]) <= 23
        /\ two(hms[2]) /\ long(hms[2]) <= 59
        /\ two(hms[3]) /\ long(hms[3]) <= 61
  IN
  IF good
    THEN [ok |-> TRUE,
          exc |-> "none",
          val |-> f[5] \o <<"-">> \o Pad2(mon) \o <<"-">> \o Pad2(long(f[3]))
                  \o <<"T">> \o Pad2(long(hms[1])) \o <<":">>
                  \o Pad2(long(hms[2])) \o <<":">> \o Pad2(long(hms[3]))]
    ELSE [ok |-> FALSE, exc |-> "ValueError", val |-> <<>>]

\* lines 184-193: the date field under --fixup-date
FixupDate(datestring) ==
  LET darr == split(datestring, " ") IN
  IF Len(darr) < 5 THEN [ok |-> FALSE, val |-> <<>>, exc |-> "IndexError"]
  ELSE strptime(join(Slice(darr, 0, 4) \o Slice(darr, 5, 6), <<" ">>))

\* data[k] = v
Put(data, k, v) ==
  [x \in (DOMAIN data) \cup {k} |-> IF x = k THEN v ELSE data[x]]

\* line 202 once human2bytes has returned r for the element name:value
Store(st, element, name, value, r) ==
  IF r.ok
    THEN [st EXCEPT !.data = Put(st.data, name, r.val),
                    !.calls = Append(st.calls, [name |-> name, arg |-> value, res |-> r])]
    ELSE [st EXCEPT !.ok = FALSE, !.exc = r.exc, !.element = element,
                    !.calls = Append(st.calls, [name |-> name, arg |-> value, res |-> r])]

\* Field without the test of the blacklist: every field is decoded
FieldNoBlacklist(st, element, x, bl) ==
  IF Len(x) < 2
    THEN [st EXCEPT !.ok = FALSE, !.exc = "IndexError", !.element = element]
  ELSE Store(st, element, x[1], x[2], human2bytes(x[2]))

\* lines 200-202 for the element split at ':' into x
Field(st, element, x, bl) ==
  IF x[1] \in ToSet(bl) THEN st
  ELSE IF Len(x) < 2
    THEN [st EXCEPT !.ok = FALSE, !.exc = "IndexError", !.element = element]
  ELSE Store(st, element, x[1], x[2], human2bytes(x[2]))

\* One pass of the loop at lines 197-202 over one element. st carries the
\* dictionary built so far, the calls made to human2bytes, and the exception
\* (with the element it was raised on) once one is raised.
ParseElement(st, element, bl) ==
  IF ~st.ok \/ element = <<"\n">> THEN st
  ELSE Field(st, element, split(element, ":"), bl)

RECURSIVE ParseElements(_, _, _)
ParseElements(st, elements, bl) ==
  IF elements = <<>> THEN st
  ELSE ParseElements(ParseElement(st, Head(elements), bl), Tail(elements), bl)

\* the first 40 characters of the line go into the report
ReportChars == 40

\* lines 194-212 with the date field settled: the dictionary starts with the
\* date, the elements are parsed, and a failure carries its report
ParseFields(fixed, elements, bl, report) ==
  IF fixed.ok
    THEN ParseElements([ok |-> TRUE, exc |-> "none", element |-> <<>>,
                        calls |-> <<>>, stage |-> "fields", report |-> report,
                        data |-> [k \in {Date} |-> fixed.val]],
                       elements, bl)
    ELSE [ok |-> FALSE, exc |-> fixed.exc, element |-> <<>>, calls |-> <<>>,
          stage |-> "date", report |-> report,
          data |-> [k \in {Date} |-> fixed.val]]

\* lines 180-193: the line split at '|', the date field taken off
ParseSplit(ListOfStrings, fixupDate, bl, report) ==
  ParseFields(IF fixupDate THEN FixupDate(Head(ListOfStrings))
              ELSE [ok |-> TRUE, val |-> Head(ListOfStrings), exc |-> "none"],
              Tail(ListOfStrings), bl, report)

\* parse_line(inline, filename, line, fixupDate) with the global blacklist bl.
\* ok: a record is returned in data; otherwise exc is the exception that
\* propagates and report is the "Execption parsing line" message.
parse_line(inline, filename, line, fixupDate, bl) ==
  ParseSplit(split(inline, "|"), fixupDate, bl,
             [line |-> line,
              file |-> IF filename = None THEN Stdin ELSE filename,
              text |-> Slice(inline, 0, ReportChars)])

\* parse_keys(data): the keys in the order the dictionary yields them, which
\* the language leaves open: any ordering of the key set
parse_keys(data) ==
  {s \in [1..Cardinality(DOMAIN data) -> DOMAIN data] :
     \A i, j \in DOMAIN s : i # j => s[i] # s[j]}

(* ------------------------------------------------------------------ *)
(* Inputs: the lines a run may read, the options, the blacklist file   *)
(* ------------------------------------------------------------------ *)

\* the longest input, in lines
MaxLines == 3

\* d1|a:1|b:5\n: a=1, b=5
LineAB5 ==
  <<"d","1","|","a",":","1","|","b",":","5","\n">>

\* d2|a:1|b:6\n: a=1, b=6
LineAB6 ==
  <<"d","2","|","a",":","1","|","b",":","6","\n">>

\* d3|a:1|c:1K\n: a=1, no b, c=1024
LineAC ==
  <<"d","3","|","a",":","1","|","c",":","1","K","\n">>

\* turned over\n: the log rotation marker
LineRot ==
  <<"t","u","r","n","e","d"," ","o","v","e","r","\n">>

\* d5|a:1k\n: a value with the lone lowercase k suffix
LineLowK ==
  <<"d","5","|","a",":","1","k","\n">>

\* d6|a:1|b:9q\n: b has a unit no list holds
LineBadB ==
  <<"d","6","|","a",":","1","|","b",":","9","q","\n">>

\* d7|a\n: a field without a colon
LineNoColon ==
  <<"d","7","|","a","\n">>

\* Mon Apr 1 00:00:00 PDT 2013|a:2\n: a date(1) time stamp
LineLegacy1 ==
  <<"M","o","n"," ","A","p","r"," ","1"," ","0","0",":","0","0",
     ":","0","0"," ","P","D","T"," ","2","0","1","3","|","a",":",
     "2","\n">>

\* Mon Apr 1 00:00:01 PDT 2013|a:2|c:1.5K\n: a date(1) time stamp, c=1536
LineLegacy2 ==
  <<"M","o","n"," ","A","p","r"," ","1"," ","0","0",":","0","0",
     ":","0","1"," ","P","D","T"," ","2","0","1","3","|","a",":",
     "2","|","c",":","1",".","5","K","\n">>

\* Mon Apr 31 00:00:00 PDT 2013|a:2kiB|c:1.5K\n: no such day, and a has a unit no list holds; longer than the report
LineBadDate ==
  <<"M","o","n"," ","A","p","r"," ","3","1"," ","0","0",":","0",
     "0",":","0","0"," ","P","D","T"," ","2","0","1","3","|","a",
     ":","2","k","i","B","|","c",":","1",".","5","K","\n">>

Lines ==
  {LineAB5, LineAB6, LineAC, LineRot, LineLowK, LineBadB, LineNoColon,
   LineLegacy1, LineLegacy2, LineBadDate}

\* readline() at the end of the input returns the empty string
EOFLine == <<>>

InputName == <<"f">>

\* (options, args) = parser.parse_args(): -f, --rgraph, --all, --fixup-date,
\* --append-csv and --prefix. The input source, the date mode and --all vary
\* freely; the three output options are taken in three combinations: none,
\* graphs with appended files, and a prefix.
Options ==
  {o \in [filename : {None, InputName}, fixupDate : BOOLEAN, all : BOOLEAN,
          rgraph : BOOLEAN, appendCSV : BOOLEAN,
          prefix : {<<>>, <<"p", "_">>}] :
     \/ ~o.rgraph /\ ~o.appendCSV /\ o.prefix = <<>>
     \/ o.rgraph /\ o.appendCSV /\ o.prefix = <<>>
     \/ ~o.rgraph /\ ~o.appendCSV /\ o.prefix # <<>>}

\* blacklist.txt as csv.reader yields it: absent, or rows of cells
BlacklistFiles ==
  {None, << <<>>, << <<"c">>, <<"b">> >>, <<Date>> >>}

CsvExt == <<".", "c", "s", "v">>

\* a per-counter file left by an earlier run
InitialFiles == [n \in {<<"b">> \o CsvExt} |-> << <<Date, <<"b">> >> >>]

(* ------------------------------------------------------------------ *)
(* main                                                                *)
(* ------------------------------------------------------------------ *)

Init ==
  /\ pc = "open"
  /\ err = "none"
  /\ options \in Options
  /\ blfile \in BlacklistFiles
  /\ blacklist = <<>>
  /\ input = <<>>
  /\ eof = FALSE
  /\ lineno = 0
  /\ last = <<>>
  /\ keys = <<>>
  /\ records = <<>>
  /\ linecount = 0
  /\ newkeys = <<>>
  /\ unique = 0
  /\ ki = 0
  /\ fs = InitialFiles
  /\ out = <<>>
  /\ plotted = <<>>
  /\ reports = <<>>

\* lines 258-273: the input is standard input, or the named file is opened
OpenInput ==
  /\ pc = "open"
  /\ \E r \in {"ok", "IOError", "other"} :
       /\ options.filename = None => r = "ok"
       /\ pc' = CASE r = "ok" -> "blacklist"
                  [] r = "IOError" -> "exit2"
                  [] r = "other" -> "exit3"
  /\ UNCHANGED <<err, options, blfile, blacklist, input, eof, lineno, last,
                 keys, records, linecount, newkeys, unique, ki, fs, out,
                 plotted, reports>>

\* row.pop() of every non-empty row
RECURSIVE BlacklistRows(_)
BlacklistRows(rows) ==
  IF rows = <<>> THEN <<>>
  ELSE (IF Head(rows) # <<>> THEN <<Head(rows)[Len(Head(rows))]>> ELSE <<>>)
       \o BlacklistRows(Tail(rows))

\* lines 290-296
LoadBlacklist ==
  /\ pc = "blacklist"
  /\ blacklist' = IF blfile = None THEN blacklist
                  ELSE blacklist \o BlacklistRows(blfile)
  /\ pc' = "first"
  /\ UNCHANGED <<err, options, blfile, input, eof, lineno, last, keys,
                 records, linecount, newkeys, unique, ki, fs, out, plotted,
                 reports>>

\* what f.readline() or the iteration over f can return after n lines
NextLines(n, e) ==
  IF e \/ n >= MaxLines THEN {EOFLine} ELSE Lines \cup {EOFLine}

Read(inp, l) == IF l = EOFLine THEN inp ELSE Append(inp, l)

\* a call of parse_line by main, kept with the position in the input of
\* the line it was given
Call(inline, pos, res) ==
  [inline |-> inline, line |-> res.report.line, pos |-> pos, res |-> res]

\* lines 299-308: the first line, or the one after a leading marker
ReadFirst ==
  /\ pc = "first"
  /\ \E l1 \in NextLines(Len(input), eof) :
       LET in1  == Read(input, l1)
           eof1 == l1 = EOFLine
       IN
       \E line \in (IF Contains(l1, TurnedOver)
                      THEN NextLines(Len(in1), eof1) ELSE {l1}) :
         \E in2 \in {IF Contains(l1, TurnedOver) THEN Read(in1, line) ELSE in1},
            res \in {parse_line(line, options.filename, 1,
                                options.fixupDate, blacklist)} :
         /\ input' = in2
         /\ eof' = (line = EOFLine)
         /\ lineno' = 1
         /\ last' = <<Call(line, Len(in2), res)>>
         /\ IF res.ok
              THEN /\ keys' \in parse_keys(res.data)
                   /\ pc' = "loop"
                   /\ UNCHANGED <<err, reports>>
              ELSE /\ pc' = "aborted"
                   /\ err' = res.exc
                   /\ reports' = Append(reports, res.report)
                   /\ UNCHANGED keys
  /\ UNCHANGED <<options, blfile, blacklist, records, linecount, newkeys,
                 unique, ki, fs, out, plotted>>

\* LoopStep that reports a line that fails to parse and goes on to the next
LoopStepSkipBad ==
  /\ pc = "loop"
  /\ \E line \in NextLines(Len(input), eof) \ {EOFLine} :
       \E res \in {parse_line(line, options.filename, lineno,
                               options.fixupDate, blacklist)} :
       /\ input' = Append(input, line)
       /\ last' = <<Call(line, Len(input) + 1, res)>>
       /\ IF ~res.ok
            THEN /\ reports' = Append(reports, res.report)
                 /\ UNCHANGED <<pc, err, keys, records, linecount>>
          ELSE IF Contains(line, TurnedOver)
            THEN UNCHANGED <<pc, err, reports, keys, records, linecount>>
          ELSE
            /\ IF DOMAIN res.data \ ToSet(keys) # {}
                 THEN keys' \in parse_keys(res.data)
                 ELSE UNCHANGED keys
            /\ records' = Append(records, res.data)
            /\ linecount' = linecount + 1
            /\ UNCHANGED <<pc, err, reports>>
  /\ UNCHANGED <<options, blfile, blacklist, eof, lineno, newkeys, unique,
                 ki, fs, out, plotted>>

\* lines 312-324: one pass of the read loop
LoopStep ==
  /\ pc = "loop"
  /\ \E line \in NextLines(Len(input), eof) \ {EOFLine} :
       \E res \in {parse_line(line, options.filename, lineno,
                               options.fixupDate, blacklist)} :
       /\ input' = Append(input, line)
       /\ last' = <<Call(line, Len(input) + 1, res)>>
       /\ IF ~res.ok
            THEN /\ pc' = "aborted"
                 /\ err' = res.exc
                 /\ reports' = Append(reports, res.report)
                 /\ UNCHANGED <<keys, records, linecount>>
          ELSE IF Contains(line, TurnedOver)
            THEN UNCHANGED <<pc, err, reports, keys, records, linecount>>
          ELSE
            /\ IF DOMAIN res.data \ ToSet(keys) # {}
                 THEN keys' \in parse_keys(res.data)
                 ELSE UNCHANGED keys
            /\ records' = Append(records, res.data)
            /\ linecount' = linecount + 1
            /\ UNCHANGED <<pc, err, reports>>
  /\ UNCHANGED <<options, blfile, blacklist, eof, lineno, newkeys, unique,
                 ki, fs, out, plotted>>

\* lines 325-335: the input is exhausted
LoopEnd ==
  /\ pc = "loop"
  /\ eof' = TRUE
  /\ pc' = "purge"
  /\ newkeys' = <<>>
  /\ unique' = 0
  /\ ki' = 1
  /\ UNCHANGED <<err, options, blfile, blacklist, input, lineno, last, keys,
                 records, linecount, fs, out, plotted, reports>>

PurgeDups == ~options.all

\* lines 341-343: the first record holding key; past the end of the list
\* records[i] raises IndexError
FirstWith(key, recs) ==
  IF \E i \in 1..Len(recs) : key \in DOMAIN recs[i]
    THEN CHOOSE i \in 1..Len(recs) :
           key \in DOMAIN recs[i] /\ \A j \in 1..(i - 1) : key \notin DOMAIN recs[j]
    ELSE 0

\* lines 350-360: some record from the first one on holds another value
Differs(key, recs) ==
  LET i0 == FirstWith(key, recs) IN
  \E i \in i0..Len(recs) :
    key \in DOMAIN recs[i] /\ recs[i][key] # recs[i0][key]

\* lines 339-360: one key of the scan for unchanging counters
PurgeKey ==
  /\ pc = "purge"
  /\ PurgeDups
  /\ ki <= Len(keys)
  /\ LET key == keys[ki] IN
     IF key = Date
       THEN UNCHANGED <<pc, err, newkeys, unique>>
     ELSE IF FirstWith(key, records) = 0
       THEN /\ pc' = "aborted"
            /\ err' = "IndexError"
            /\ UNCHANGED <<newkeys, unique>>
     ELSE IF Differs(key, records)
       THEN /\ unique' = unique + 1
            /\ newkeys' = Append(newkeys, key)
            /\ UNCHANGED <<pc, err>>
     ELSE UNCHANGED <<pc, err, newkeys, unique>>
  /\ ki' = ki + 1
  /\ UNCHANGED <<options, blfile, blacklist, input, eof, lineno, last, keys,
                 records, linecount, fs, out, plotted, reports>>

\* lines 336, 361-363: keys=newkeys when unchanging counters are purged
PurgeDone ==
  /\ pc = "purge"
  /\ ~PurgeDups \/ ki > Len(keys)
  /\ keys' = IF PurgeDups THEN newkeys ELSE keys
  /\ pc' = "combined"
  /\ UNCHANGED <<err, options, blfile, blacklist, input, eof, lineno, last,
                 records, linecount, newkeys, unique, ki, fs, out, plotted,
                 reports>>

\* a cell as the csv writer renders it: the time stamp is a string already,
\* a counter value goes through str()
Cell(k, rec) == IF k = Date THEN rec[k] ELSE str(rec[k])

\* DictWriter(f, fieldnames, restval=0, extrasaction='ignore').writerows
Row(fieldnames, rec) ==
  [i \in 1..Len(fieldnames) |->
     IF fieldnames[i] \in DOMAIN rec THEN Cell(fieldnames[i], rec)
     ELSE str(0)]

Rows(fieldnames, recs) == [i \in 1..Len(recs) |-> Row(fieldnames, recs[i])]

\* open(name, 'wb') or open(name, 'ab'), the rows written, close
WriteFile(files, name, mode, rows) ==
  [n \in (DOMAIN files) \cup {name} |->
     IF n # name THEN files[n]
     ELSE IF mode = "ab" /\ name \in DOMAIN files THEN files[name] \o rows
     ELSE rows]

\* lines 367-376: the combined file, only when a file name was given; the
\* writer's field names are the list keys itself, with Date inserted first
WriteCombined ==
  /\ pc = "combined"
  /\ IF options.filename # None
       THEN LET name   == options.filename \o CsvExt
                header == <<Date>> \o keys
                rows   == <<header>> \o Rows(header, records)
            IN  /\ keys' = header
                /\ fs' = WriteFile(fs, name, "wb", rows)
                /\ out' = Append(out, [name |-> name, mode |-> "wb",
                                       header |-> header,
                                       rows |-> Rows(header, records)])
       ELSE UNCHANGED <<keys, fs, out>>
  /\ pc' = "percounter"
  /\ ki' = 1
  /\ UNCHANGED <<err, options, blfile, blacklist, input, eof, lineno, last,
                 records, linecount, newkeys, unique, plotted, reports>>

\* lines 381-409: the file of one counter, and its graph under --rgraph
WriteCounter ==
  /\ pc = "percounter"
  /\ ki <= Len(keys)
  /\ LET sysctl == keys[ki] IN
     IF sysctl = Date
       THEN UNCHANGED <<pc, fs, out, plotted>>
       ELSE
         LET outfilename    == options.prefix \o sysctl \o CsvExt
             mode           == IF options.appendCSV THEN "ab" ELSE "wb"
             cvsheader_list == <<Date, options.prefix \o sysctl>>
             sysctl_list    == <<Date, sysctl>>
             rows           == Rows(sysctl_list, records)
         IN
         /\ fs' = WriteFile(fs, outfilename, mode, <<cvsheader_list>> \o rows)
         /\ out' = Append(out, [name |-> outfilename, mode |-> mode,
                                header |-> cvsheader_list, rows |-> rows])
         /\ IF options.rgraph
              THEN \E rv \in {0, 1} :
                     /\ plotted' = Append(plotted, [sysctl |-> sysctl, rv |-> rv])
                     /\ pc' = IF rv # 0 THEN "exit1" ELSE pc
              ELSE UNCHANGED <<pc, plotted>>
  /\ ki' = ki + 1
  /\ UNCHANGED <<err, options, blfile, blacklist, input, eof, lineno, last,
                 keys, records, linecount, newkeys, unique, reports>>

\* lines 410-412
Finish ==
  /\ pc = "percounter"
  /\ ki > Len(keys)
  /\ pc' = "done"
  /\ UNCHANGED <<err, options, blfile, blacklist, input, eof, lineno, last,
                 keys, records, linecount, newkeys, unique, ki, fs, out,
                 plotted, reports>>

Next ==
  \/ OpenInput
  \/ LoadBlacklist
  \/ ReadFirst
  \/ LoopStep
  \/ LoopEnd
  \/ PurgeKey
  \/ PurgeDone
  \/ WriteCombined
  \/ WriteCounter
  \/ Finish

Spec == Init /\ [][Next]_vars

(* ------------------------------------------------------------------ *)
(* What the input holds, computed from the lines read and not from     *)
(* the lists main keeps                                                *)
(* ------------------------------------------------------------------ *)

\* the lines of the input that are no rotation marker
DataLines == SelectSeq(input, LAMBDA l : ~Contains(l, TurnedOver))

\* the record of one line
RecordOf(l) ==
  parse_line(l, options.filename, 1, options.fixupDate, blacklist).data

\* the records of the input, in input order
ParsedRecords == [i \in 1..Len(DataLines) |-> RecordOf(DataLines[i])]

\* the counters of R that two records holding them give different values
VariableIn(R) ==
  {k \in (UNION {DOMAIN R[i] : i \in DOMAIN R}) \ {Date} :
     \E i, j \in DOMAIN R :
       k \in DOMAIN R[i] /\ k \in DOMAIN R[j] /\ R[i][k] # R[j][k]}

\* in how many of the loaded records key is present
PresentCount(key, recs) ==
  Cardinality({i \in 1..Len(recs) : key \in DOMAIN recs[i]})

CombinedName == InputName \o CsvExt

PerCounterOut == {i \in DOMAIN out : out[i].name # CombinedName}
CombinedOut == {i \in DOMAIN out : out[i].name = CombinedName}

(* ------------------------------------------------------------------ *)
(* Claims                                                              *)
(* ------------------------------------------------------------------ *)

\* C1: SchemaUnion is monotonic. Across every pass of the read loop the
\* running key set keeps every name it held before the record, so its size
\* never decreases.
C1_KeySetMonotonic ==
  [][(pc = "loop" /\ pc' = "loop")
       => (ToSet(keys) \subseteq ToSet(keys') /\ Len(keys') >= Len(keys))]_vars

\* K per-counter files and one combined file with K+1 header columns
EndToEndCounts(K) ==
  /\ Cardinality(PerCounterOut) = Cardinality(K)
  /\ Cardinality(CombinedOut) = 1
  /\ \A i \in CombinedOut : Len(out[i].header) = Cardinality(K) + 1

\* C2: End to end in the drop-unchanging mode: an input whose counters
\* include K variable ones yields exactly K per-counter files plus one
\* combined file whose header has K+1 columns. Stated here for input read
\* from a named file, the case in which main writes a combined file at all;
\* read from standard input it writes none.
C2_EndToEnd ==
  (pc = "done" /\ ~options.all /\ options.filename # None)
    => EndToEndCounts(VariableIn(ParsedRecords))

\* C3: In the stability scan a key present in at most one loaded record
\* (or in none, also when no record is loaded) is unchanging: the scan of
\* that key completes, does not add it to the variable keys and does not
\* abort the run.
C3_AbsentKeyUnchanging ==
  [][(/\ pc = "purge" /\ PurgeDups /\ ki <= Len(keys)
      /\ keys[ki] # Date
      /\ PresentCount(keys[ki], records) <= 1)
       => (pc' = "purge" /\ newkeys' = newkeys /\ err' = err)]_vars

\* C4: StabilityFilter: the reduced key set that main computes when it
\* purges unchanging counters is exactly the set of non-Date keys that two
\* records of the input, both holding the key, give different values.
C4_ReducedKeySet ==
  (pc = "combined" /\ PurgeDups) => ToSet(keys) = VariableIn(ParsedRecords)

\* s is a non-empty numeric portion followed by a lone lowercase k
IsLoneK(s) ==
  /\ Len(s) >= 2
  /\ s[Len(s)] = "k"
  /\ NumLen(s) = Len(s) - 1
  /\ FloatOk(SubSeq(s, 1, Len(s) - 1))

\* floor(n x 1024) for the numeric portion of s, and the result for n + 'K'
LoneKDecoded(s, r) ==
  /\ r.ok
  /\ r.val = (Numer(SubSeq(s, 1, Len(s) - 1)) * 1024)
               \div Pow(10, Places(SubSeq(s, 1, Len(s) - 1)))
  /\ r = human2bytes(SubSeq(s, 1, Len(s) - 1) \o <<"K">>)

\* C5: human2bytes takes a lone lowercase k as the short kilo suffix:
\* human2bytes(n + 'k') returns floor(n x 1024), as human2bytes(n + 'K')
\* does, and does not fail.
C5_LoneLowercaseK ==
  \A i \in DOMAIN last :
    \A c \in DOMAIN last[i].res.calls :
      IsLoneK(strip(last[i].res.calls[c].arg))
        => LoneKDecoded(strip(last[i].res.calls[c].arg),
                        last[i].res.calls[c].res)

\* the name of a field
NameOf(element) == split(element, ":")[1]

\* the fields of a line
FieldsOf(inline) ==
  SelectSeq(Tail(split(inline, "|")), LAMBDA e : e # <<"\n">>)

\* what parse_line did with the blacklist bl
BlacklistKept(res, bl) ==
  /\ \A c \in DOMAIN res.calls : res.calls[c].name \notin ToSet(bl)
  /\ res.ok => (DOMAIN res.data) \cap (ToSet(bl) \ {Date}) = {}
  /\ (~res.ok /\ res.stage = "fields") => NameOf(res.element) \notin ToSet(bl)

\* C6: The record parse_line returns holds no blacklisted counter name, a
\* field with a blacklisted name is never passed to human2bytes, and so
\* such a field with an undecodable value does not make parse_line fail.
C6_BlacklistNeverDecoded ==
  \A i \in DOMAIN last : BlacklistKept(last[i].res, blacklist)

\* C6 witness: parse_line returned a record for a line that holds a
\* blacklisted field whose value human2bytes cannot decode.
C6_Witness ==
  /\ last # <<>>
  /\ last[1].res.ok
  /\ \E e \in ToSet(FieldsOf(last[1].inline)) :
       /\ NameOf(e) \in ToSet(blacklist)
       /\ Len(split(e, ":")) >= 2
       /\ ~human2bytes(split(e, ":")[2]).ok

\* C7: Every line holding the rotation marker is skipped by main before
\* parse_line is invoked on it, wherever it stands in the input and with
\* the legacy-date flag set or not: no call of parse_line is given such a
\* line, so it aborts no run and yields no record and no keys.
C7_MarkerNeverParsed ==
  \A i \in DOMAIN last : ~Contains(last[i].inline, TurnedOver)

\* C8: The line number main passes to parse_line is the 1-based position
\* of the line being parsed, and the report of a failure on the n-th line
\* names line n, the source identifier and the first 40 characters of
\* the line.
C8_ReportNamesLine ==
  \A i \in {j \in DOMAIN last : last[j].inline # EOFLine} :
    /\ last[i].line = last[i].pos
    /\ ~last[i].res.ok =>
         reports = <<[line |-> last[i].pos,
                      file |-> IF options.filename = None THEN Stdin
                               ELSE options.filename,
                      text |-> Slice(last[i].inline, 0, ReportChars)]>>

\* the key of column c of a written file: a per-counter header carries
\* the prefix
KeyOf(o, c) ==
  IF o.name = CombinedName \/ c = 1 THEN o.header[c]
  ELSE Slice(o.header[c], Len(options.prefix), Len(o.header[c]))

\* the cell of the record rec for key k
ExpectedCell(k, rec) ==
  IF k = Date THEN rec[Date]
  ELSE IF k \in DOMAIN rec THEN str(rec[k]) ELSE str(0)

\* the row of one written file for the record rec
ExpectedRow(o, rec) ==
  [c \in 1..Len(o.header) |-> ExpectedCell(KeyOf(o, c), rec)]

\* the rows of one written file are those of the records R, in order
RowsMatch(o, R) ==
  /\ Len(o.rows) = Len(R)
  /\ \A i \in 1..Len(R) : i <= Len(o.rows) => o.rows[i] = ExpectedRow(o, R[i])

\* C9: For an input of N parsed non-rotation lines the combined CSV and
\* every per-counter CSV hold exactly N data rows in input order, the i-th
\* row giving for each header key the i-th record's value, or 0 when the
\* record lacks the key.
C9_RowPerRecord ==
  pc = "done" =>
    \A i \in DOMAIN out : RowsMatch(out[i], ParsedRecords)

\* the blacklists LoadBlacklist can leave
Blacklists == {<<>>} \cup {BlacklistRows(f) : f \in BlacklistFiles \ {None}}

\* whether parse_line returns a record for a line, for every line, date
\* mode and blacklist of the model; neither the file name nor the line
\* number passed changes that
ParsesOk ==
  [l \in Lines, fx \in BOOLEAN, bl \in Blacklists |->
     parse_line(l, None, 1, fx, bl).ok]

\* every line read was parsed without failure (a leading marker is
\* stepped over without parsing)
AllParsed ==
  \A i \in 1..Len(input) :
    \/ i = 1 /\ Contains(input[1], TurnedOver)
    \/ ParsesOk[input[i], options.fixupDate, blacklist]

OutputTouched == fs # InitialFiles \/ out # <<>> \/ plotted # <<>>

\* C10: No partial success: no output file is opened or written and no
\* plotting command is run before every input line has been parsed; when
\* parse_line fails on a line the run aborts with no output file created
\* or modified.
C10_NoPartialSuccess ==
  /\ OutputTouched =>
       /\ eof
       /\ pc \in {"percounter", "done", "exit1"}
       /\ reports = <<>>
       /\ AllParsed
  /\ reports # <<>> => (pc = "aborted" /\ ~OutputTouched)
  /\ ~AllParsed => (pc = "aborted" /\ reports # <<>>)

\* C10 witness: parse_line failed on a line after records had been loaded,
\* and the run stands aborted with the files as they were.
C10_Witness ==
  /\ pc = "aborted"
  /\ reports # <<>>
  /\ records # <<>>
  /\ fs = InitialFiles

====
